---- MODULE Spec2Model ----
(***************************************************************************)
(* binary-cookie-extractor: the decode pipeline of main()                  *)
(*   checkFileMagicNumber -> extractPages -> extractCookiesFromPages       *)
(*   -> decodeCookies -> output                                            *)
(* over a byte buffer read from a Cookies.binarycookies file.              *)
(*                                                                         *)
(* A Go []byte is a window [lo, hi) onto a backing array; a slice          *)
(* expression s[a:b] is checked against the CAPACITY of s (the end of the  *)
(* backing array), s[a:] against its LENGTH.  The backing array returned   *)
(* by ioutil.ReadFile may be longer than the file; the extra bytes are     *)
(* zero.  A failed bounds check is a run-time panic (pc = "panic"),        *)
(* os.Exit(1) is pc = "exit".                                              *)
(***************************************************************************)
EXTENDS Integers, Sequences, FiniteSets, TLC

VARIABLES
    backing,      \* the backing array of data: the file's bytes, then zero bytes up to the capacity
    data,         \* main.data, the slice [lo, hi) of backing that holds the file
    pc,           \* where main() is: "main", "checked", "paged", "split", "decoded", "done", "exit", "panic"
    pages,        \* main.pages, the pages struct
    allCookies,   \* main.allCookies
    printed       \* what was handed to the output function

vars == <<backing, data, pc, pages, allCookies, printed>>

(***************************************************************************)
(* Go slices                                                               *)
(***************************************************************************)
NilSlice == [lo |-> 0, hi |-> 0]

SliceLen(s) == s.hi - s.lo

SliceCap(arr, s) == Len(arr) - s.lo

\* s[a:b] is in range
CanSlice(arr, s, a, b) == a <= b /\ b <= SliceCap(arr, s)

\* s[a:] is in range
CanSliceFrom(s, a) == a <= SliceLen(s)

Slice(s, a, b) == [lo |-> s.lo + a, hi |-> s.lo + b]

SliceFrom(s, a) == [lo |-> s.lo + a, hi |-> s.hi]

\* the bytes a slice shows
Bytes(arr, s) == [i \in 1..(s.hi - s.lo) |-> arr[s.lo + i]]

(***************************************************************************)
(* encoding/hex and strconv                                                *)
(***************************************************************************)
HexChars == <<"0", "1", "2", "3", "4", "5", "6", "7", "8", "9", "a", "b", "c", "d", "e", "f">>

\* hex.EncodeToString: two lower-case hexadecimal characters per byte
EncodeToString(bytes) ==
    [i \in 1..(2 * Len(bytes)) |->
        LET b == bytes[(i + 1) \div 2]
        IN  HexChars[(IF i % 2 = 1 THEN b \div 16 ELSE b % 16) + 1]]

DigitVal(c) == CHOOSE d \in 0..15 : HexChars[d + 1] = c

RECURSIVE ParseDigits(_, _, _)
ParseDigits(s, base, acc) ==
    IF s = <<>> THEN acc
    ELSE ParseDigits(Tail(s), base, acc * base + DigitVal(Head(s)))

\* strconv.ParseUint(s, base, 64) with the error dropped: a syntax error
\* (empty string, or a character that is no digit of the base) gives 0
ParseUint(s, base) ==
    IF s = <<>> \/ \E i \in 1..Len(s) : DigitVal(s[i]) >= base
    THEN 0
    ELSE ParseDigits(s, base, 0)

\* strconv.ParseUint(s, 16, 64) of 16 characters: the uint64 is kept as its
\* 16 base-16 digits, most significant first
ParseUint64(s) == [i \in 1..Len(s) |-> DigitVal(s[i])]

(***************************************************************************)
(* helpers of the program                                                  *)
(***************************************************************************)
reverseByteSlice(d) == [i \in 1..Len(d) |-> d[Len(d) + 1 - i]]

convertHexToUint(bytes) == ParseUint(EncodeToString(bytes), 16)

RECURSIVE scanLoop(_, _, _)
scanLoop(d, i, result) ==
    IF i > Len(d) THEN result
    ELSE IF d[i] = 0 THEN result
    ELSE scanLoop(d, i + 1, Append(result, d[i]))

\* faulty variant: the terminating NUL is kept in the result
scanKeepTerminator(d) ==
    LET r == scanLoop(d, 1, <<>>)
    IN  IF Len(r) < Len(d) THEN Append(r, 0) ELSE r

scanUntilNullByte(d) == scanLoop(d, 1, <<>>)

(***************************************************************************)
(* convertHexToCoreDataTime                                                *)
(***************************************************************************)
CoreDataEpoch == 978307200

\* the widest binary exponent whose truncated value the model's integers hold
MaxExp == 29

\* stands for every second count of magnitude 2^(MaxExp+1) or more, NaN and the infinities
BeyondRange == 0 - 2 ^ MaxExp - 2 ^ MaxExp

\* math.Float64frombits: sign (1 bit), biased exponent (11 bits), fraction (52 bits, 13 digits)
Float64frombits(b) ==
    [sign |-> b[1] \div 8,
     exp  |-> (b[1] % 8) * 256 + b[2] * 16 + b[3],
     frac |-> SubSeq(b, 4, 16)]

\* bit j (1 the most significant) of a 52-bit fraction held as 13 base-16 digits
FracBit(frac, j) == (frac[((j - 1) \div 4) + 1] \div (2 ^ (3 - ((j - 1) % 4)))) % 2

RECURSIVE TopBits(_, _)
TopBits(frac, n) == IF n = 0 THEN 0 ELSE 2 * TopBits(frac, n - 1) + FracBit(frac, n)

\* int64(c): truncation toward zero of (-1)^sign * 1.frac * 2^(exp - 1023)
Int64(c) ==
    LET e   == c.exp - 1023
        mag == (2 ^ MaxExp + TopBits(c.frac, MaxExp)) \div (2 ^ (MaxExp - e))
    IN  IF c.exp < 1023 THEN 0
        ELSE IF e > MaxExp THEN BeyondRange
        ELSE IF c.sign = 1 THEN 0 - mag ELSE mag

\* faulty variant: the Core Data second count returned as if it were Unix time
timeNoEpoch(bytes) ==
    Int64(Float64frombits(ParseUint64(EncodeToString(reverseByteSlice(bytes)))))

\* the time.Time is its Unix second count
convertHexToCoreDataTime(bytes) ==
    LET a == EncodeToString(reverseByteSlice(bytes))
        b == ParseUint64(a)
        c == Float64frombits(b)
        d == Int64(c)
    IN  IF d = BeyondRange THEN BeyondRange ELSE d + CoreDataEpoch

\* time.Time.String(): the rendering of the instant
convertCoreDataToString(t) == <<"time.String", t>>

(***************************************************************************)
(* checkFileMagicNumber                                                    *)
(***************************************************************************)
Cook == <<99, 111, 111, 107>>

\* faulty variant: only the first byte of the magic is compared
MagicOfFirstByte(arr, d) ==
    IF ~CanSlice(arr, d, 0, 4) THEN "panic"
    ELSE IF Bytes(arr, Slice(d, 0, 1)) # SubSeq(Cook, 1, 1) THEN "exit"
    ELSE "ok"

\* "ok", "exit" (os.Exit(1) after the message) or "panic" (data[:4] out of range)
checkFileMagicNumber(arr, d) ==
    IF ~CanSlice(arr, d, 0, 4) THEN "panic"
    ELSE IF Bytes(arr, Slice(d, 0, 4)) # Cook THEN "exit"
    ELSE "ok"

(***************************************************************************)
(* extractPages                                                            *)
(***************************************************************************)
Panic == [panic |-> TRUE, val |-> <<>>]

Return(v) == [panic |-> FALSE, val |-> v]

ZeroCookie ==
    [rawBytes |-> NilSlice, Size |-> 0, Name |-> <<>>, Value |-> <<>>, Domain |-> <<>>,
     Path |-> <<>>, Flags |-> "", Expires |-> <<>>, LastAccessed |-> <<>>]

ZeroPage == [rawBytes |-> NilSlice, numCookiesInPage |-> 0, cookieOffsets |-> <<>>, cookies |-> <<>>]

ZeroPages == [pages |-> <<>>, numPages |-> 0, pageSizes |-> <<>>, headerSize |-> 0]

\* faulty variant: the size table read from byte 4, the page count taken as the first size
parseSizeOfPagesFromCount(arr, d, n) ==
    IF n > 0 /\ ~CanSlice(arr, d, 8 + 4 * (n - 1), 12 + 4 * (n - 1)) THEN Panic
    ELSE Return([i \in 1..n |-> convertHexToUint(Bytes(arr, Slice(d, 4 * i, 4 + 4 * i)))])

\* the loop reads data[8:12], data[12:16], ...; the first read past the capacity panics
parseSizeOfPages(arr, d, n) ==
    IF n > 0 /\ ~CanSlice(arr, d, 8 + 4 * (n - 1), 12 + 4 * (n - 1)) THEN Panic
    ELSE Return([i \in 1..n |-> convertHexToUint(Bytes(arr, Slice(d, 4 + 4 * i, 8 + 4 * i)))])

\* the loop of extractPages from page i (1-based) on
RECURSIVE pageLoop(_, _, _, _, _, _, _)
pageLoop(arr, d, pageSizes, headerSize, i, offsetCounter, acc) ==
    IF i > Len(pageSizes) THEN Return(acc)
    ELSE IF i = Len(pageSizes)
    THEN IF CanSliceFrom(d, headerSize + offsetCounter)
         THEN pageLoop(arr, d, pageSizes, headerSize, i + 1, offsetCounter,
                       Append(acc, [ZeroPage EXCEPT !.rawBytes = SliceFrom(d, headerSize + offsetCounter)]))
         ELSE Panic
    ELSE IF CanSlice(arr, d, headerSize + offsetCounter, headerSize + pageSizes[i])
         THEN pageLoop(arr, d, pageSizes, headerSize, i + 1, offsetCounter + pageSizes[i],
                       Append(acc, [ZeroPage EXCEPT !.rawBytes =
                                       Slice(d, headerSize + offsetCounter, headerSize + pageSizes[i])]))
         ELSE Panic

extractPages(arr, d) ==
    IF ~CanSlice(arr, d, 4, 8) THEN Panic
    ELSE LET numPages == convertHexToUint(Bytes(arr, Slice(d, 4, 8)))
             sizes    == parseSizeOfPages(arr, d, numPages)
         IN  IF sizes.panic THEN Panic
             ELSE LET headerSize == numPages * 4 + 8
                      loop       == pageLoop(arr, d, sizes.val, headerSize, 1, 0, <<>>)
                  IN  IF loop.panic THEN Panic
                      ELSE Return([pages |-> loop.val, numPages |-> numPages,
                                   pageSizes |-> sizes.val, headerSize |-> headerSize])

(***************************************************************************)
(* extractCookiesFromPages                                                 *)
(***************************************************************************)
\* faulty variant: the count bytes parsed without the reversal
cookieCountBigEndian(bytes) == ParseUint(EncodeToString(bytes), 10)

\* line 264: the reversed bytes, hex-encoded, parsed in base 10
cookieCount(bytes) == ParseUint(EncodeToString(reverseByteSlice(bytes)), 10)

\* the second loop: numCookiesInPage offsets read from page bytes [8, 12), [12, 16), ...
readOffsets(arr, raw, n) ==
    IF n > 0 /\ ~CanSlice(arr, raw, 8 + 4 * (n - 1), 12 + 4 * (n - 1)) THEN Panic
    ELSE Return([j \in 1..n |->
                    convertHexToUint(reverseByteSlice(Bytes(arr, Slice(raw, 4 + 4 * j, 8 + 4 * j))))])

\* the third loop: record k is rawBytes[o[k]:o[k+1]], the last one rawBytes[o[k]:]
cutCookies(arr, raw, o) ==
    LET n == Len(o)
    IN  IF \A k \in 1..n : IF k = n THEN CanSliceFrom(raw, o[k])
                                    ELSE CanSlice(arr, raw, o[k], o[k + 1])
        THEN Return([k \in 1..n |->
                        [ZeroCookie EXCEPT !.rawBytes =
                            IF k = n THEN SliceFrom(raw, o[k]) ELSE Slice(raw, o[k], o[k + 1])]])
        ELSE Panic

\* faulty variant: the page's rawBytes re-sliced past its 4-byte marker while it is split
extractCookiesFromPageTrimmed(arr, p) ==
    IF ~CanSlice(arr, p.rawBytes, 4, 8) THEN Panic
    ELSE LET a       == cookieCount(Bytes(arr, Slice(p.rawBytes, 4, 8)))
             offsets == readOffsets(arr, p.rawBytes, a)
         IN  IF offsets.panic THEN Panic
             ELSE LET cut == cutCookies(arr, p.rawBytes, p.cookieOffsets \o offsets.val)
                  IN  IF cut.panic \/ ~CanSliceFrom(p.rawBytes, 4) THEN Panic
                      ELSE Return([p EXCEPT !.rawBytes = SliceFrom(p.rawBytes, 4),
                                            !.numCookiesInPage = a,
                                            !.cookieOffsets = p.cookieOffsets \o offsets.val,
                                            !.cookies = p.cookies \o cut.val])

\* one iteration of the loop over the pages
extractCookiesFromPage(arr, p) ==
    IF ~CanSlice(arr, p.rawBytes, 4, 8) THEN Panic
    ELSE LET a       == cookieCount(Bytes(arr, Slice(p.rawBytes, 4, 8)))
             offsets == readOffsets(arr, p.rawBytes, a)
         IN  IF offsets.panic THEN Panic
             ELSE LET cut == cutCookies(arr, p.rawBytes, p.cookieOffsets \o offsets.val)
                  IN  IF cut.panic THEN Panic
                      ELSE Return([p EXCEPT !.numCookiesInPage = a,
                                            !.cookieOffsets = p.cookieOffsets \o offsets.val,
                                            !.cookies = p.cookies \o cut.val])

extractCookiesFromPages(arr, ps) ==
    LET each == [i \in 1..Len(ps.pages) |-> extractCookiesFromPage(arr, ps.pages[i])]
    IN  IF \E i \in 1..Len(ps.pages) : each[i].panic THEN Panic
        ELSE Return([ps EXCEPT !.pages = [i \in 1..Len(ps.pages) |-> each[i].val]])

(***************************************************************************)
(* decodeCookies                                                           *)
(***************************************************************************)
\* faulty variant: the texts of 4 and 5 exchanged
flagTextSwapped(b) ==
    CASE b = 0 -> "None"
      [] b = 1 -> "Secure"
      [] b = 4 -> "Secure; HttpOnly"
      [] b = 5 -> "HttpOnly"
      [] OTHER -> "Unknown"

\* the switch on the flags value
flagText(b) ==
    CASE b = 0 -> "None"
      [] b = 1 -> "Secure"
      [] b = 4 -> "HttpOnly"
      [] b = 5 -> "Secure; HttpOnly"
      [] OTHER -> "Unknown"

\* the little-endian unsigned 32-bit field at record bytes [from, to)
field(arr, raw, from, to) == convertHexToUint(reverseByteSlice(Bytes(arr, Slice(raw, from, to))))

\* the body of the inner loop for one cookie
decodeCookie(arr, c) ==
    LET raw == c.rawBytes
    IN  IF ~(/\ CanSlice(arr, raw, 0, 4)
             /\ CanSlice(arr, raw, 8, 12)
             /\ CanSlice(arr, raw, 16, 20)
             /\ CanSlice(arr, raw, 20, 24)
             /\ CanSlice(arr, raw, 24, 28)
             /\ CanSlice(arr, raw, 28, 32))
        THEN Panic
        ELSE LET intA         == field(arr, raw, 0, 4)
                 b            == field(arr, raw, 8, 12)
                 domainOffset == field(arr, raw, 16, 20)
                 nameOffset   == field(arr, raw, 20, 24)
                 pathOffset   == field(arr, raw, 24, 28)
                 valueOffset  == field(arr, raw, 28, 32)
             IN  IF ~(/\ CanSliceFrom(raw, nameOffset)
                      /\ CanSliceFrom(raw, valueOffset)
                      /\ CanSliceFrom(raw, domainOffset)
                      /\ CanSliceFrom(raw, pathOffset)
                      /\ CanSlice(arr, raw, 40, 48)
                      /\ CanSlice(arr, raw, 48, 56))
                 THEN Panic
                 ELSE Return(
                     [rawBytes     |-> raw,
                      Size         |-> intA,
                      Name         |-> scanUntilNullByte(Bytes(arr, SliceFrom(raw, nameOffset))),
                      Value        |-> scanUntilNullByte(Bytes(arr, SliceFrom(raw, valueOffset))),
                      Domain       |-> scanUntilNullByte(Bytes(arr, SliceFrom(raw, domainOffset))),
                      Path         |-> scanUntilNullByte(Bytes(arr, SliceFrom(raw, pathOffset))),
                      Flags        |-> flagText(b),
                      Expires      |-> convertCoreDataToString(
                                          convertHexToCoreDataTime(Bytes(arr, Slice(raw, 40, 48)))),
                      LastAccessed |-> convertCoreDataToString(
                                          convertHexToCoreDataTime(Bytes(arr, Slice(raw, 48, 56))))])

\* faulty variant: the pages walked from the last to the first
RECURSIVE flattenLastFirst(_, _)
flattenLastFirst(pgs, i) ==
    IF i > Len(pgs) THEN <<>> ELSE flattenLastFirst(pgs, i + 1) \o pgs[i].cookies

\* the cookies of the pages from page i on, in loop order
RECURSIVE flatten(_, _)
flatten(pgs, i) == IF i > Len(pgs) THEN <<>> ELSE pgs[i].cookies \o flatten(pgs, i + 1)

\* val.pages: the pages with every cookie decoded in place; val.appended: the aCookie values in append order
decodeCookies(arr, ps) ==
    LET each == [i \in 1..Len(ps.pages) |->
                    [j \in 1..Len(ps.pages[i].cookies) |-> decodeCookie(arr, ps.pages[i].cookies[j])]]
    IN  IF \E i \in 1..Len(ps.pages) : \E j \in 1..Len(ps.pages[i].cookies) : each[i][j].panic
        THEN Panic
        ELSE LET decoded == [i \in 1..Len(ps.pages) |->
                                [ps.pages[i] EXCEPT !.cookies =
                                    [j \in 1..Len(ps.pages[i].cookies) |-> each[i][j].val]]]
             IN  Return([pages |-> [ps EXCEPT !.pages = decoded], appended |-> flatten(decoded, 1)])

(***************************************************************************)
(* The files the model reads: containers laid out as the format has them   *)
(* (magic, big-endian page count and page sizes, then the pages; a page is *)
(* its marker, little-endian cookie count and offsets, then the records),  *)
(* well-formed ones and damaged ones.                                      *)
(***************************************************************************)
MaxPages == 3

MaxCookies == 3

SlackCap == 64

U32LE(v) == <<v % 256, (v \div 256) % 256, (v \div 65536) % 256, (v \div 16777216) % 256>>

U32BE(v) == <<(v \div 16777216) % 256, (v \div 65536) % 256, (v \div 256) % 256, v % 256>>

Zeros(n) == [i \in 1..n |-> 0]

RECURSIVE Concat(_)
Concat(ss) == IF ss = <<>> THEN <<>> ELSE Head(ss) \o Concat(Tail(ss))

RECURSIVE SumLen(_, _)
SumLen(ss, k) == IF k = 0 THEN 0 ELSE Len(ss[k]) + SumLen(ss, k - 1)

SeqsUpTo(S, n) == UNION {[1..m -> S] : m \in 1..n}

\* a record: the 56 fixed bytes, then domain, name, path and value, each NUL-terminated
\* (the value only when k.nul)
CookieBytes(k) ==
    LET domainOffset == 56
        nameOffset   == domainOffset + Len(k.domain) + 1
        pathOffset   == nameOffset + Len(k.name) + 1
        valueOffset  == pathOffset + Len(k.path) + 1
        tail         == IF k.nul THEN <<0>> ELSE <<>>
        size         == valueOffset + Len(k.value) + Len(tail)
    IN  U32LE(size) \o Zeros(4) \o U32LE(k.flags) \o Zeros(4)
        \o U32LE(domainOffset) \o U32LE(nameOffset) \o U32LE(pathOffset) \o U32LE(valueOffset)
        \o Zeros(8) \o k.expires \o k.lastAccessed
        \o k.domain \o <<0>> \o k.name \o <<0>> \o k.path \o <<0>> \o k.value \o tail

BaseCookie ==
    [flags |-> 5, name |-> <<97>>, value |-> <<98>>, domain |-> <<99>>, path |-> <<47>>,
     expires |-> Zeros(8), lastAccessed |-> Zeros(8), nul |-> TRUE]

\* name "id", domain ".io"
IdCookie == [BaseCookie EXCEPT !.flags = 1, !.name = <<105, 100>>, !.domain = <<46, 105, 111>>]

\* the value "bb" runs to the record's last byte, with no NUL
OpenCookie == [BaseCookie EXCEPT !.flags = 4, !.value = <<98, 98>>, !.nul = FALSE]

FlagValues == 0..8 \cup {255, 257, 16777216}

\* little-endian doubles: 0.0, 1.0, 0.5, 2.75, -1.5, 700000000.5, -978307201.0,
\* 1073741823.9, 1073741824.0, +Inf
TimeFixtures ==
    {Zeros(8),
     <<0, 0, 0, 0, 0, 0, 240, 63>>,
     <<0, 0, 0, 0, 0, 0, 224, 63>>,
     <<0, 0, 0, 0, 0, 0, 6, 64>>,
     <<0, 0, 0, 0, 0, 0, 248, 191>>,
     <<0, 0, 64, 128, 147, 220, 196, 65>>,
     <<0, 0, 128, 64, 228, 39, 205, 193>>,
     <<51, 51, 243, 255, 255, 255, 207, 65>>,
     <<0, 0, 0, 0, 0, 0, 208, 65>>,
     <<0, 0, 0, 0, 0, 0, 240, 127>>}

CookieKinds ==
    {[BaseCookie EXCEPT !.flags = f] : f \in FlagValues}
    \cup {[BaseCookie EXCEPT !.expires = t] : t \in TimeFixtures}
    \cup {[BaseCookie EXCEPT !.lastAccessed = t] : t \in TimeFixtures}
    \cup {IdCookie, OpenCookie}

\* a page: marker, count, offset table, pad zero bytes, records
PageBytes(p) ==
    <<0, 0, 1, 0>> \o U32LE(p.count)
    \o Concat([k \in 1..Len(p.offsets) |-> U32LE(p.offsets[k])])
    \o Zeros(p.pad) \o Concat(p.records)

\* the page whose count and offsets describe its records
PageOf(records, pad) ==
    [records |-> records, count |-> Len(records), pad |-> pad,
     offsets |-> [k \in 1..Len(records) |-> 8 + 4 * Len(records) + pad + SumLen(records, k - 1)]]

\* n one-byte records
TinyPage(n) == PageOf([k \in 1..n |-> <<1>>], 4)

\* the spec's minimal page: one record, its offset-table entry 0
ZeroOffsetPage == [PageOf(<<CookieBytes(BaseCookie)>>, 0) EXCEPT !.offsets = <<0>>]

\* the same page with the entry pointing at the record
MinimalPage == PageOf(<<CookieBytes(BaseCookie)>>, 0)

PageA == PageBytes(PageOf(<<CookieBytes(BaseCookie)>>, 4))

PageB == PageBytes(PageOf(<<CookieBytes(OpenCookie), CookieBytes(IdCookie)>>, 4))

\* bytes with the little-endian value v written at [at, at + 4) (at counted from 0)
Patch32(bytes, at, v) == SubSeq(bytes, 1, at) \o U32LE(v) \o SubSeq(bytes, at + 5, Len(bytes))

\* a record one of whose text offsets is the record's length, or one more
StrayOffsetRecords ==
    {Patch32(CookieBytes(BaseCookie), at, Len(CookieBytes(BaseCookie)) + more) :
        at \in {16, 20, 24, 28}, more \in {0, 1}}

\* a record of 34 bytes: the first 32 fixed bytes, every text offset 32, the text "x"
ShortRecord ==
    U32LE(34) \o Zeros(4) \o U32LE(1) \o Zeros(4)
    \o U32LE(32) \o U32LE(32) \o U32LE(32) \o U32LE(32) \o <<120, 0>>

\* two records whose offset-table entries are equal, decreasing, or past the page's end
BadOffsetPages ==
    LET pg == PageOf(<<CookieBytes(BaseCookie), CookieBytes(IdCookie)>>, 4)
        o  == pg.offsets
    IN  {[pg EXCEPT !.offsets = <<o[1], o[1]>>],
         [pg EXCEPT !.offsets = <<o[2], o[1]>>],
         [pg EXCEPT !.offsets = <<o[1], Len(PageBytes(pg)) + 1>>],
         [pg EXCEPT !.offsets = <<o[1], Len(PageBytes(pg))>>]}

PageKinds ==
    {PageBytes(PageOf(<<CookieBytes(k)>>, 4)) : k \in CookieKinds}
    \cup {PageBytes(PageOf([i \in DOMAIN ks |-> CookieBytes(ks[i])], 4)) :
            ks \in SeqsUpTo({OpenCookie, IdCookie}, MaxCookies)}
    \cup {PageBytes(TinyPage(n)) : n \in {0, 2, 10, 16}}
    \cup {PageBytes(ZeroOffsetPage), PageBytes(MinimalPage)}
    \cup {PageBytes(PageOf(<<r>>, 4)) : r \in StrayOffsetRecords \cup {ShortRecord}}
    \cup {PageBytes(PageOf(<<ShortRecord, CookieBytes(BaseCookie)>>, 4))}
    \cup {PageBytes(pg) : pg \in BadOffsetPages}

ContainerBytes(c) ==
    c.magic \o U32BE(c.numPages)
    \o Concat([i \in 1..Len(c.sizes) |-> U32BE(c.sizes[i])])
    \o Concat(c.pages) \o c.trailer

\* the container whose header describes its pages
ContainerOf(pgs) ==
    [magic |-> Cook, numPages |-> Len(pgs), sizes |-> [i \in 1..Len(pgs) |-> Len(pgs[i])],
     pages |-> pgs, trailer |-> <<>>]

Footer == <<7, 23, 32, 5, 0, 0, 0, 75>>

BadMagics == {<<120, 120, 120, 120>>, <<99, 111, 111, 120>>, <<67, 111, 111, 107>>, Zeros(4)}

WellFormed ==
    {ContainerOf(<<pg>>) : pg \in PageKinds}
    \cup {ContainerOf(pgs) : pgs \in SeqsUpTo({PageA, PageB}, MaxPages)}

Damaged ==
    LET bases == {ContainerOf(<<PageA>>), ContainerOf(<<PageA, PageB>>), ContainerOf(<<PageA, PageB, PageA>>)}
    IN  {[c EXCEPT !.magic = m] : c \in bases, m \in BadMagics}
        \cup {[c EXCEPT !.trailer = Footer] : c \in bases}
        \cup {[c EXCEPT !.numPages = @ + 65536] : c \in bases}
        \cup {[c EXCEPT !.numPages = @ + 1] : c \in bases}
        \cup {[c EXCEPT !.sizes[1] = @ + 4096] : c \in bases}
        \cup {[c EXCEPT !.sizes[1] = @ + 4, !.pages[1] = @ \o Zeros(4)] : c \in bases}

\* the first n bytes of a container, and of a file that is no container
Short ==
    {SubSeq(ContainerBytes(ContainerOf(<<PageA, PageB>>)), 1, n) : n \in 0..16}
    \cup {SubSeq(Zeros(4) \o Footer, 1, n) : n \in 1..12}
    \cup {SubSeq(<<120, 120, 120, 120>> \o Footer, 1, n) : n \in 1..12}

Inputs == {ContainerBytes(c) : c \in WellFormed \cup Damaged} \cup Short

(***************************************************************************)
(* main                                                                    *)
(***************************************************************************)
\* data, err := ioutil.ReadFile(*file): the file's bytes in a backing array of some capacity
Init ==
    /\ \E input \in Inputs : \E slack \in {0, SlackCap} :
          /\ backing = input \o Zeros(slack)
          /\ data = [lo |-> 0, hi |-> Len(input)]
    /\ pc = "main"
    /\ pages = ZeroPages
    /\ allCookies = <<>>
    /\ printed = <<>>

CheckFileMagicNumber ==
    /\ pc = "main"
    /\ pc' = CASE checkFileMagicNumber(backing, data) = "ok" -> "checked"
               [] checkFileMagicNumber(backing, data) = "exit" -> "exit"
               [] OTHER -> "panic"
    /\ UNCHANGED <<backing, data, pages, allCookies, printed>>

ExtractPages ==
    /\ pc = "checked"
    /\ LET r == extractPages(backing, data)
       IN  IF r.panic
           THEN pc' = "panic" /\ UNCHANGED pages
           ELSE pc' = "paged" /\ pages' = r.val
    /\ UNCHANGED <<backing, data, allCookies, printed>>

ExtractCookiesFromPages ==
    /\ pc = "paged"
    /\ LET r == extractCookiesFromPages(backing, pages)
       IN  IF r.panic
           THEN pc' = "panic" /\ UNCHANGED pages
           ELSE pc' = "split" /\ pages' = r.val
    /\ UNCHANGED <<backing, data, allCookies, printed>>

DecodeCookies ==
    /\ pc = "split"
    /\ LET r == decodeCookies(backing, pages)
       IN  IF r.panic
           THEN pc' = "panic" /\ UNCHANGED <<pages, allCookies>>
           ELSE pc' = "decoded" /\ pages' = r.val.pages /\ allCookies' = allCookies \o r.val.appended
    /\ UNCHANGED <<backing, data, printed>>

\* the switch on *format: allCookies goes to one of the output functions
Output ==
    /\ pc = "decoded"
    /\ pc' = "done"
    /\ printed' = allCookies
    /\ UNCHANGED <<backing, data, pages, allCookies>>

Next ==
    \/ CheckFileMagicNumber
    \/ ExtractPages
    \/ ExtractCookiesFromPages
    \/ DecodeCookies
    \/ Output

Spec == Init /\ [][Next]_vars

(***************************************************************************)
(* Properties                                                              *)
(***************************************************************************)
\* the unsigned 32-bit values at bytes [off, off + 4) of the backing array (off counted from 0)
LE32At(off) ==
    backing[off + 1] + 256 * backing[off + 2] + 65536 * backing[off + 3] + 16777216 * backing[off + 4]

BE32At(off) ==
    16777216 * backing[off + 1] + 65536 * backing[off + 2] + 256 * backing[off + 3] + backing[off + 4]

FileBytes == SubSeq(backing, 1, data.hi)

HasMagic == data.hi >= 4 /\ SubSeq(backing, 1, 4) = Cook

Returned(stage) ==
    CASE stage = "extractPages" -> pc \in {"paged", "split", "decoded", "done"}
      [] stage = "extractCookiesFromPages" -> pc \in {"split", "decoded", "done"}
      [] stage = "decodeCookies" -> pc \in {"decoded", "done"}

RECURSIVE SumTo(_, _)
SumTo(f, k) == IF k = 0 THEN 0 ELSE f[k] + SumTo(f, k - 1)

\* C1: a buffer whose first 4 bytes are not "cook" ends in the exit of
\* checkFileMagicNumber (the InvalidFormat outcome), and nothing was split,
\* sliced, appended or printed.
C1_BadMagicExits ==
    (data.hi >= 4 /\ SubSeq(backing, 1, 4) # Cook /\ pc # "main")
        => (pc = "exit" /\ pages = ZeroPages /\ allCookies = <<>> /\ printed = <<>>)

C1_Witness ==
    /\ data.hi >= 4
    /\ SubSeq(backing, 1, 3) = SubSeq(Cook, 1, 3)
    /\ backing[4] # Cook[4]
    /\ pc = "exit"

\* C2: after extractPages, page i spans [cursor_i, cursor_i + pageSizes[i]),
\* the last page [cursor_i, end of buffer), with cursor_i = headerSize + the
\* sum of the sizes before it.
C2_PageSpans ==
    Returned("extractPages") =>
        \A i \in 1..Len(pages.pages) :
            LET cursor == pages.headerSize + SumTo(pages.pageSizes, i - 1)
            IN  /\ pages.pages[i].rawBytes.lo = cursor
                /\ pages.pages[i].rawBytes.hi =
                      IF i = Len(pages.pages) THEN data.hi ELSE cursor + pages.pageSizes[i]

\* C3: the cookie count of every page is the little-endian unsigned 32-bit
\* value of page bytes [4, 8).
C3_CookieCount ==
    Returned("extractCookiesFromPages") =>
        \A i \in 1..Len(pages.pages) :
            pages.pages[i].numCookiesInPage = LE32At(pages.pages[i].rawBytes.lo + 4)

\* C4: a page with cookie count n (the value of page bytes [4, 8)) and offsets
\* o[0..n-1] is split into exactly n records, record k the page bytes
\* [o[k], o[k+1]), the last one [o[n-1], end of page).
C4_Records ==
    Returned("extractCookiesFromPages") =>
        \A i \in 1..Len(pages.pages) :
            LET pg == pages.pages[i]
                n  == LE32At(pg.rawBytes.lo + 4)
                o  == [k \in 1..n |-> LE32At(pg.rawBytes.lo + 4 + 4 * k)]
            IN  /\ Len(pg.cookies) = n
                /\ \A k \in 1..n :
                      /\ pg.cookies[k].rawBytes.lo = pg.rawBytes.lo + o[k]
                      /\ pg.cookies[k].rawBytes.hi =
                            IF k = n THEN pg.rawBytes.hi ELSE pg.rawBytes.lo + o[k + 1]

\* where each text field's offset is stored in the record
TextFields == {[name |-> "Name", at |-> 20], [name |-> "Value", at |-> 28],
               [name |-> "Domain", at |-> 16], [name |-> "Path", at |-> 24]}

\* the text t is the run of bytes at the field's offset up to the first NUL or the record's end
IsBoundedRun(rec, off, t) ==
    LET start == rec.lo + off
    IN  /\ \A x \in 1..Len(t) : t[x] # 0 /\ t[x] = backing[start + x]
        /\ start + Len(t) <= rec.hi
        /\ start + Len(t) = rec.hi \/ backing[start + Len(t) + 1] = 0

\* C5: every decoded text field whose offset lies inside the record is the
\* bytes from the offset up to the first NUL or the record's last byte: no NUL
\* in it, no byte from outside the record.
C5_TextBounded ==
    \A k \in 1..Len(allCookies) : \A f \in TextFields :
        LET c   == allCookies[k]
            off == LE32At(c.rawBytes.lo + f.at)
        IN  off < SliceLen(c.rawBytes) => IsBoundedRun(c.rawBytes, off, c[f.name])

\* a decoded value that ran to its record's last byte, the byte after it (the next record's) not NUL
C5_Witness ==
    \E k \in 1..Len(allCookies) :
        LET c   == allCookies[k]
            off == LE32At(c.rawBytes.lo + 28)
        IN  /\ off < SliceLen(c.rawBytes)
            /\ c.Value # <<>>
            /\ c.rawBytes.lo + off + Len(c.Value) = c.rawBytes.hi
            /\ c.rawBytes.hi < data.hi
            /\ backing[c.rawBytes.hi + 1] # 0

\* the raw records in decode order
RawRecords == flatten(pages.pages, 1)

\* C6: the flags text follows the little-endian value of record bytes [8, 12):
\* 0 None, 1 Secure, 4 HttpOnly, 5 Secure+HttpOnly, anything else Unknown; the
\* decoded record keeps the raw record, so the raw value can still be read.
C6_Flags ==
    \A k \in 1..Len(allCookies) :
        LET c == allCookies[k]
            v == LE32At(RawRecords[k].rawBytes.lo + 8)
        IN  /\ c.rawBytes = RawRecords[k].rawBytes
            /\ v = 0 => c.Flags = "None"
            /\ v = 1 => c.Flags = "Secure"
            /\ v = 4 => c.Flags = "HttpOnly"
            /\ v = 5 => c.Flags = "Secure; HttpOnly"
            /\ v \notin {0, 1, 4, 5} => c.Flags = "Unknown"

C6_Witness ==
    /\ \E k \in 1..Len(allCookies) :
          LE32At(allCookies[k].rawBytes.lo + 8) = 255 /\ allCookies[k].Flags = "Unknown"
    /\ pc = "done"

\* the 8 bytes at [at, at + 8) of a record, and what they encode as a little-endian double
TimeBytes(rec, at) == SubSeq(backing, rec.lo + at + 1, rec.lo + at + 8)

DoubleSign(b) == b[8] \div 128

DoubleExp(b) == (b[8] % 128) * 16 + (b[7] \div 16)

\* 1.fraction cut to its leading 30 bits
DoubleLead(b) ==
    2 ^ 29 + (b[7] % 16) * (2 ^ 25) + b[6] * (2 ^ 17) + b[5] * (2 ^ 9) + b[4] * 2 + (b[3] \div 128)

\* v is the double of b truncated toward zero (for magnitudes below 2^30)
IsTruncationOf(v, b) ==
    LET e == DoubleExp(b) - 1023
        m == IF v < 0 THEN 0 - v ELSE v
    IN  IF e < 0 THEN v = 0
        ELSE /\ m * (2 ^ (29 - e)) <= DoubleLead(b)
             /\ DoubleLead(b) < (m + 1) * (2 ^ (29 - e))
             /\ (DoubleSign(b) = 1) = (v < 0)

TimeFieldsAt == {[name |-> "Expires", at |-> 40], [name |-> "LastAccessed", at |-> 48]}

ExpectedMinimal(c) ==
    /\ c.Flags = "Secure; HttpOnly"
    /\ c.Name = <<97>>
    /\ c.Value = <<98>>
    /\ c.Domain = <<99>>
    /\ c.Path = <<47>>
    /\ c.Expires = convertCoreDataToString(978307200)
    /\ c.LastAccessed = convertCoreDataToString(978307200)

DecodesToMinimal ==
    /\ pc \in {"main", "checked", "paged", "split", "decoded", "done"}
    /\ Returned("decodeCookies") => Len(allCookies) = 1 /\ ExpectedMinimal(allCookies[1])

\* C8 as stated: the minimal container whose single offset-table entry is 0
\* decodes to the one record flags Secure+HttpOnly, "a", "b", "c", "/",
\* both timestamps 2001-01-01T00:00:00Z.
C8_OffsetZero ==
    FileBytes = ContainerBytes(ContainerOf(<<PageBytes(ZeroOffsetPage)>>)) => DecodesToMinimal

\* C8 amended: the same container with the offset-table entry 12, the place of
\* the record in the page (after the 8-byte page header and the 4-byte table),
\* decodes to that record.
C8_OffsetTwelve ==
    FileBytes = ContainerBytes(ContainerOf(<<PageBytes(MinimalPage)>>)) => DecodesToMinimal

C8_Witness ==
    /\ FileBytes = ContainerBytes(ContainerOf(<<PageBytes(MinimalPage)>>))
    /\ pc = "done"
    /\ Len(printed) = 1
    /\ ExpectedMinimal(printed[1])
    /\ MinimalPage.offsets = <<12>>

\* C9: after extractPages, numPages is the big-endian value of buffer bytes
\* [4, 8), pageSizes has numPages entries, entry i the big-endian value of
\* buffer bytes [8 + 4i, 12 + 4i), and headerSize = 8 + 4 * numPages (for a
\* header that lies inside the buffer).
C9_Header ==
    (Returned("extractPages") /\ data.hi >= 8 /\ (BE32At(4) <= (data.hi - 8) \div 4)) =>
        /\ pages.numPages = BE32At(4)
        /\ Len(pages.pageSizes) = pages.numPages
        /\ \A i \in 1..Len(pages.pageSizes) : pages.pageSizes[i] = BE32At(4 + 4 * i)
        /\ pages.headerSize = 8 + 4 * pages.numPages

C9_Witness ==
    /\ pc = "paged"
    /\ pages.numPages = 3
    /\ pages.headerSize = 20
    /\ pages.pageSizes = <<Len(PageA), Len(PageB), Len(PageA)>>
    /\ Len(PageB) > Len(PageA)

\* the header's sizes and the buffer's length disagree
SizeMismatch ==
    LET n == BE32At(4)
    IN  \/ n > (data.hi - 8) \div 4
        \/ 8 + 4 * n + SumTo([i \in 1..n |-> BE32At(4 + 4 * i)], n) # data.hi

\* C10: a buffer with valid magic whose sizes do not add up to its length ends
\* in an error outcome, never in a crash and never decoded; a decoded buffer
\* satisfies sum(pageSizes) + headerSize = buffer length.
C10_SizesChecked ==
    (HasMagic /\ data.hi >= 8 /\ SizeMismatch) => pc \in {"main", "checked", "exit"}

\* C11: a buffer shorter than 8 bytes ends in the InvalidFormat exit, not in a
\* crash, and no page count is read from it.
C11_ShortBufferRejected ==
    (data.hi < 8 /\ pc # "main") => (pc = "exit" /\ pages = ZeroPages)

\* extractCookiesFromPages panicked: pages were handed over and none got a cookie
\* (decodeCookies cannot panic without a cookie)
SplitPanicked ==
    /\ pc = "panic"
    /\ pages.pages # <<>>
    /\ \A i \in 1..Len(pages.pages) : pages.pages[i].cookies = <<>>

\* C12: record splitting does not crash, and every page that was split has
\* exactly cookieCount offsets, strictly increasing and all smaller than the
\* page length.
C12_OffsetsChecked ==
    /\ ~SplitPanicked
    /\ Returned("extractCookiesFromPages") =>
          \A i \in 1..Len(pages.pages) :
              LET pg == pages.pages[i]
                  o  == pg.cookieOffsets
              IN  /\ Len(o) = pg.numCookiesInPage
                  /\ \A k \in 1..Len(o) :
                        /\ o[k] < SliceLen(pg.rawBytes)
                        /\ k < Len(o) => o[k] < o[k + 1]

\* the raw records of the pages
RecordSlices ==
    UNION {{pages.pages[i].cookies[j].rawBytes : j \in 1..Len(pages.pages[i].cookies)} :
              i \in 1..Len(pages.pages)}

\* C13: a raw record shorter than 56 bytes is reported as TruncatedCookie: field
\* decoding neither crashes on it nor decodes it (from bytes beyond its span).
C13_ShortRecordReported ==
    (\E rec \in RecordSlices : SliceLen(rec) < 56) => pc \notin {"panic", "decoded", "done"}

\* C14: a record one of whose four text offsets is greater than or equal to
\* the record length is reported as OffsetOutOfRange: field decoding neither
\* crashes on it nor decodes it (with an empty text).
C14_StrayOffsetReported ==
    (\E rec \in RecordSlices :
        /\ SliceLen(rec) >= 56
        /\ \E f \in TextFields : LE32At(rec.lo + f.at) >= SliceLen(rec))
    => pc \notin {"panic", "decoded", "done"}

\* the count field of a page does not parse: one of its hexadecimal digits is a-f
CountUnparsable(pg) ==
    \E x \in 5..8 :
        LET b == backing[pg.rawBytes.lo + x]
        IN  b \div 16 >= 10 \/ b % 16 >= 10

\* C15: once a page's cookie count fails to parse, decoding is aborted: the
\* program never goes on (with the count taken as 0) to split, decode and print.
C15_ParseFailureAborts ==
    Returned("extractCookiesFromPages") =>
        \A i \in 1..Len(pages.pages) : ~CountUnparsable(pages.pages[i])

\* the number of records of the pages before page p
RECURSIVE RecordsBefore(_)
RecordsBefore(p) == IF p <= 1 THEN 0 ELSE Len(pages.pages[p - 1].cookies) + RecordsBefore(p - 1)

\* C16: after decodeCookies, allCookies has one record per raw record of every
\* page, in page order and, within a page, offset-table order, each with the
\* field values of the cookie decoded in place.
C16_OutputOrder ==
    Returned("decodeCookies") =>
        /\ Len(allCookies) = RecordsBefore(Len(pages.pages) + 1)
        /\ \A p \in 1..Len(pages.pages) : \A k \in 1..Len(pages.pages[p].cookies) :
              allCookies[RecordsBefore(p) + k] = pages.pages[p].cookies[k]

\* two pages, the second with two records, decoded and printed
C16_Witness ==
    /\ pc = "done"
    /\ Len(pages.pages) = 2
    /\ Len(pages.pages[1].cookies) = 1
    /\ Len(pages.pages[2].cookies) = 2
    /\ printed[1].Name = <<97>>
    /\ printed[3].Name = <<105, 100>>

\* a later stage runs after its predecessor only
StageOrder ==
    \/ pc = "main" /\ pc' \in {"checked", "exit", "panic"}
    \/ pc = "checked" /\ pc' \in {"paged", "panic"}
    \/ pc = "paged" /\ pc' \in {"split", "panic"}
    \/ pc = "split" /\ pc' \in {"decoded", "panic"}
    \/ pc = "decoded" /\ pc' = "done"

\* what extractPages handed over: the header values and every page's byte span
SpansKept ==
    /\ pages'.numPages = pages.numPages
    /\ pages'.pageSizes = pages.pageSizes
    /\ pages'.headerSize = pages.headerSize
    /\ Len(pages'.pages) = Len(pages.pages)
    /\ \A i \in 1..Len(pages.pages) : pages'.pages[i].rawBytes = pages.pages[i].rawBytes

\* what extractCookiesFromPages handed over: counts, offset tables and the records' byte spans
RecordsKept ==
    \A i \in 1..Len(pages.pages) :
        /\ pages'.pages[i].numCookiesInPage = pages.pages[i].numCookiesInPage
        /\ pages'.pages[i].cookieOffsets = pages.pages[i].cookieOffsets
        /\ Len(pages'.pages[i].cookies) = Len(pages.pages[i].cookies)
        /\ \A j \in 1..Len(pages.pages[i].cookies) :
              pages'.pages[i].cookies[j].rawBytes = pages.pages[i].cookies[j].rawBytes

\* C17 as stated: the stages run in order, the buffer is never written, and
\* the page list that extractPages produced, cookie counts, offset tables and
\* cookie lists included, is the same after extractCookiesFromPages, as are
\* the raw records after decodeCookies.
C17_NothingChangedAfterHandoff ==
    [][/\ StageOrder
       /\ backing' = backing /\ data' = data
       /\ pc = "paged" => pages' = pages
       /\ pc = "split" => SpansKept /\ RecordsKept]_vars

\* C17 amended: the stages run in order and the buffer is never written;
\* extractCookiesFromPages keeps the header values and page byte spans and
\* fills in each page's count, offset table and cookie list; decodeCookies
\* keeps all of those and every record's byte span and fills in the records'
\* decoded fields.
C17_SpansKeptAfterHandoff ==
    [][/\ StageOrder
       /\ backing' = backing /\ data' = data
       /\ pc \in {"paged", "split", "decoded"} => SpansKept
       /\ pc \in {"split", "decoded"} => RecordsKept]_vars

\* both later stages have filled in what they own
C17_Witness ==
    /\ pc = "decoded"
    /\ Len(pages.pages) = 2
    /\ pages.pages[2].numCookiesInPage = 2
    /\ Len(pages.pages[2].cookieOffsets) = 2
    /\ pages.pages[2].cookies[2].Flags = "Secure"
    /\ pages.pages[2].rawBytes = [lo |-> pages.headerSize + pages.pageSizes[1], hi |-> data.hi]

====
